---- MODULE Spec2Model ----
(***************************************************************************)
(* WATxtStripper (src/src/App.vue): the transcript, the speaker/emoji      *)
(* list derived from it by the watcher, the substituted output, the        *)
(* direction flag, and the copy/save actions with their toast.             *)
(*                                                                         *)
(* A text is a sequence of UTF-16 code units (naturals), as a JavaScript   *)
(* string is; an index is 0-based as in JavaScript, so the code unit at    *)
(* index i of s is s[i + 1].                                               *)
(***************************************************************************)
EXTENDS Integers, Sequences, FiniteSets, TLC

VARIABLES
    inputText,      \* ref(''): the transcript
    userEmojis,     \* ref([]): the entries [name, emoji], in order
    lastIndex,      \* msgRegex.lastIndex (the regex is shared and has flag g)
    showToast,      \* ref(false)
    toastMessage,   \* ref('')
    timers,         \* the pending setTimeout callbacks: the time left to each
    pending,        \* the writeText promises that are not settled yet
    forgotten,      \* history: the entries the watcher dropped last, of those
                    \* that held a token the user had typed
    log             \* history: the copy and save operations that have ended,
                    \* each with how it ended

textVars == <<inputText, userEmojis, lastIndex, forgotten>>

toastVars == <<showToast, toastMessage, timers>>

vars == <<inputText, userEmojis, lastIndex, showToast, toastMessage, timers,
          pending, forgotten, log>>

(***************************************************************************)
(* Character classes of the regular expressions (no 'u' flag: code units). *)
(***************************************************************************)

\* \d
IsDigit(c) == c \in 48..57

\* \s, which is also what String.prototype.trim strips:
\* TAB LF VT FF CR SP NBSP, U+1680, U+2000..U+200A, LS, PS, U+202F, U+205F,
\* U+3000, BOM
IsSpace(c) ==
    \/ c \in 9..13
    \/ c \in {32, 160, 5760, 8232, 8233, 8239, 8287, 12288, 65279}
    \/ c \in 8192..8202

\* the line terminators: what '^' (flag m) looks behind for, what '.' refuses
IsLineTerminator(c) == c \in {10, 13, 8232, 8233}

\* [\d:]
IsDigitOrColon(c) == IsDigit(c) \/ c = 58

\* [^:]
IsNotColon(c) == c # 58

\* Canonicalize of flag i, on the code units of the model's texts
Canon(c) == IF c \in 97..122 THEN c - 32 ELSE c

\* the classes that are repeated: \s, [\d:] and [^:]
InClass(class, c) ==
    CASE class = "space"        -> IsSpace(c)
      [] class = "digitOrColon" -> IsDigitOrColon(c)
      [] class = "notColon"     -> IsNotColon(c)

\* the index where the run of code units of the class that starts at index p ends
RunEnd(text, p, class) ==
    CHOOSE q \in p..Len(text) :
        /\ \A r \in p..(q - 1) : InClass(class, text[r + 1])
        /\ q = Len(text) \/ ~InClass(class, text[q + 1])

\* the least index of a set of indexes, or -1 when there is none
LeftMost(S) == IF S = {} THEN -1 ELSE CHOOSE p \in S : \A q \in S : p <= q

\* the code unit at index p, or -1 past the end
At(text, p) == IF p < Len(text) THEN text[p + 1] ELSE -1

\* s.slice(from, to)
Slice(s, from, to) == [k \in 1..(to - from) |-> s[from + k]]

\* String.prototype.trim
Trim(s) ==
    IF \A k \in 1..Len(s) : IsSpace(s[k]) THEN <<>>
    ELSE LET first == CHOOSE k \in 1..Len(s) :
                          ~IsSpace(s[k]) /\ \A j \in 1..(k - 1) : IsSpace(s[j])
             last  == CHOOSE k \in 1..Len(s) :
                          ~IsSpace(s[k]) /\ \A j \in (k + 1)..Len(s) : IsSpace(s[j])
         IN  Slice(s, first - 1, last)

(***************************************************************************)
(* Matching steps.  Each takes the index p the match has reached, or -1    *)
(* when it has failed already, and gives the index after its own part,     *)
(* or -1.                                                                  *)
(***************************************************************************)

\* the code unit c
Lit(text, p, c) == IF p # -1 /\ At(text, p) = c THEN p + 1 ELSE -1

\* one code unit of the class C, under flag i
LitI(text, p, C) == IF p # -1 /\ Canon(At(text, p)) \in C THEN p + 1 ELSE -1

\* \d{1,2} before a code unit that is no digit: a third digit fails the rest
\* whether the part takes one digit or two
Digits12(text, p) ==
    IF p # -1 /\ IsDigit(At(text, p))
    THEN IF IsDigit(At(text, p + 1)) THEN p + 2 ELSE p + 1
    ELSE -1

\* X*, greedy, for the class
Many(text, p, class) == IF p = -1 THEN -1 ELSE RunEnd(text, p, class)

\* X+, greedy, for the class
Some(text, p, class) ==
    IF p # -1 /\ p < Len(text) /\ InClass(class, text[p + 1])
    THEN RunEnd(text, p, class)
    ELSE -1

\* \s
OneSpace(text, p) == IF p # -1 /\ IsSpace(At(text, p)) THEN p + 1 ELSE -1

(***************************************************************************)
(* The timestamp bracket both patterns share:                              *)
(*     \[\d{1,2}\/\d{1,2},\s*[\d:]+\s*[ap]m]                               *)
(* BracketEnd is the index after ']' when the bracket matches at index p,  *)
(* and -1 when it does not.  Each quantified part is followed by a code    *)
(* unit outside its class, so the greedy match is the only one.            *)
(***************************************************************************)
BracketDate(text, p) ==
    Lit(text, Digits12(text, Lit(text, Digits12(text, Lit(text, p, 91)), 47)), 44)

BracketTime(text, p) ==
    LitI(text, LitI(text, Many(text, Some(text, Many(text, p, "space"),
                                          "digitOrColon"), "space"),
                    {65, 80}), {77})

BracketEnd(text, p) == Lit(text, BracketTime(text, BracketDate(text, p)), 93)

(***************************************************************************)
(* msgRegex = /^\[(\d{1,2}\/\d{1,2}),\s*([\d:]+\s*[ap]m)]\s([^:]+):/gmi    *)
(***************************************************************************)

\* '^' under flag m: the start of the text or the index after a line terminator
AtLineStart(text, p) == p = 0 \/ IsLineTerminator(text[p])

\* The index after the match of msgRegex that starts at index p, or -1.
\* [^:]+ takes every code unit up to the next colon, line terminators
\* included, and a shorter take never ends at a colon.
msgRegexAt(text, p) ==
    IF AtLineStart(text, p)
    THEN Lit(text, Some(text, OneSpace(text, BracketEnd(text, p)), "notColon"), 58)
    ELSE -1

\* match[3] of the match from index p to index end
Group3(text, p, end) == Slice(text, BracketEnd(text, p) + 1, end - 1)

\* the leftmost index >= from where msgRegex matches, or -1
msgRegexSearch(text, from) ==
    LeftMost({ p \in from..(Len(text) - 1) : msgRegexAt(text, p) # -1 })

\* Set.prototype.add on a Set kept in insertion order
SetAdd(users, name) ==
    IF \E k \in 1..Len(users) : users[k] = name THEN users ELSE Append(users, name)

\* The while loop of extractUsers, entered with msgRegex.lastIndex = from and
\* the Set holding users.  ExecStep is one msgRegex.exec(text) that found its
\* match at index p (-1: none, exec returns null and resets lastIndex, and
\* the loop ends), ExecBody the body of the loop for the match from p to end.
RECURSIVE ExecLoop(_, _, _)
ExecBody(text, p, end, users) ==
    ExecLoop(text, end, SetAdd(users, Trim(Group3(text, p, end))))

ExecStep(text, p, users) ==
    IF p = -1 THEN [users |-> users, lastIndex |-> 0]
    ELSE ExecBody(text, p, msgRegexAt(text, p), users)

ExecLoop(text, from, users) == ExecStep(text, msgRegexSearch(text, from), users)

\* extractUsers(text), called with msgRegex.lastIndex = from: the array it
\* returns (users) and the lastIndex it leaves msgRegex with
extractUsers(text, from) == ExecLoop(text, from, <<>>)

(***************************************************************************)
(* outputText: for each entry, in order,                                   *)
(*   pattern = new RegExp(BRACKET_GROUP + escaped name + ':', 'gmi')       *)
(*   out = out.replace(pattern, u.emoji + ':')                             *)
(* where BRACKET_GROUP is group 1: the timestamp bracket above and then    *)
(* any white space (\s*, greedy).  The pattern has no '^'.                 *)
(***************************************************************************)

\* The character class of /[.*+?^${}()|[\\]\\]/ : it is closed by the first
\* ']', so it holds . * + ? ^ $ { } ( ) | [ and the backslash.
InEscapeClass(c) == c \in {46, 42, 43, 63, 94, 36, 123, 125, 40, 41, 124, 91, 92}

\* /[.*+?^${}()|[\\]\\]/ at index p of name: one code unit of the class, then
\* a backslash, then ']'
EscapeRegexAt(name, p) ==
    /\ p + 3 <= Len(name)
    /\ InEscapeClass(name[p + 1])
    /\ name[p + 2] = 92
    /\ name[p + 3] = 93

\* name.replace(/[.*+?^${}()|[\\]\\]/g, '\\$&') from index p on: a backslash
\* is put before each match, every other code unit is copied
RECURSIVE EscapeFrom(_, _)
EscapeFrom(name, p) ==
    IF p >= Len(name) THEN <<>>
    ELSE IF EscapeRegexAt(name, p)
         THEN <<92>> \o Slice(name, p, p + 3) \o EscapeFrom(name, p + 3)
         ELSE <<name[p + 1]>> \o EscapeFrom(name, p + 1)

EscapeName(name) == EscapeFrom(name, 0)

\* new RegExp throws a SyntaxError on the source: an opening parenthesis that
\* nothing closes, or a '[' that no ']' closes (the names of the model's
\* transcripts hold no ')' and no ']')
PatternThrows(src) == \E k \in 1..Len(src) : src[k] \in {40, 91}

\* The alternatives of the name's part of the pattern: the source split at '|'
RECURSIVE SplitAlternatives(_, _)
SplitAlternatives(src, cur) ==
    IF src = <<>> THEN <<cur>>
    ELSE IF Head(src) = 124
         THEN <<cur>> \o SplitAlternatives(Tail(src), <<>>)
         ELSE SplitAlternatives(Tail(src), Append(cur, Head(src)))

\* The alternatives of BRACKET_GROUP src ':' : the bracket group leads only
\* the first one and the colon ends only the last one
WithGroupAndColon(segs) ==
    [k \in 1..Len(segs) |->
        [prefix |-> (k = 1),
         atoms  |-> IF k = Len(segs) THEN Append(segs[k], 58) ELSE segs[k]]]

PatternAlternatives(src) == WithGroupAndColon(SplitAlternatives(src, <<>>))

\* one pattern character against one code unit, under flag i: '.' takes any
\* code unit but a line terminator, anything else itself up to letter case
\* (the names of the model's transcripts hold no other pattern syntax)
AtomMatches(a, c) ==
    IF a = 46 THEN ~IsLineTerminator(c) ELSE Canon(a) = Canon(c)

\* the atoms, in a row, at index p
AtomsMatchAt(text, p, atoms) ==
    /\ p + Len(atoms) <= Len(text)
    /\ \A k \in 1..Len(atoms) : AtomMatches(atoms[k], text[p + k])

\* the greatest index of a set of indexes, or -1 when there is none
RightMost(S) == IF S = {} THEN -1 ELSE CHOOSE p \in S : \A q \in S : p >= q

\* BRACKET_GROUP and then the atoms, the bracket ending at index b and the
\* white space after it at index ws: \s* is greedy and gives code units back
\* until the atoms match.  The index where the atoms start, or -1.
AfterGroup(text, b, ws, atoms) ==
    RightMost({ w \in b..ws : AtomsMatchAt(text, w, atoms) })

AfterBracket(text, b, atoms) ==
    IF b = -1 THEN -1 ELSE AfterGroup(text, b, RunEnd(text, b, "space"), atoms)

\* one alternative at index p: the index where its atoms start, or -1
AlternativeAt(text, p, alt) ==
    IF alt.prefix THEN AfterBracket(text, BracketEnd(text, p), alt.atoms)
    ELSE IF AtomsMatchAt(text, p, alt.atoms) THEN p ELSE -1

\* the pattern at index p: the first alternative, in order, that matches, or -1
PatternAt(text, p, alts) ==
    LeftMost({ k \in 1..Len(alts) : AlternativeAt(text, p, alts[k]) # -1 })

\* the leftmost index >= from where the pattern matches, or -1
PatternSearch(text, from, alts) ==
    LeftMost({ p \in from..Len(text) : PatternAt(text, p, alts) # -1 })

\* GetSubstitution: the replacement template with $$, $&, $ backtick, $' and
\* $1 expanded for the match from index p to index end whose group 1 ends
\* at index g1 (-1: the group took no part, and $1 is empty); any other '$'
\* is itself
RECURSIVE GetSubstitution(_, _, _, _, _)
Expand(c, text, p, end, g1) ==
    CASE c = 36 -> <<36>>
      [] c = 38 -> Slice(text, p, end)
      [] c = 96 -> Slice(text, 0, p)
      [] c = 39 -> Slice(text, end, Len(text))
      [] c = 49 -> IF g1 = -1 THEN <<>> ELSE Slice(text, p, g1)

GetSubstitution(repl, text, p, end, g1) ==
    IF repl = <<>> THEN <<>>
    ELSE IF Head(repl) = 36 /\ Len(repl) >= 2 /\ repl[2] \in {36, 38, 96, 39, 49}
         THEN Expand(repl[2], text, p, end, g1)
                  \o GetSubstitution(Tail(Tail(repl)), text, p, end, g1)
         ELSE <<Head(repl)>> \o GetSubstitution(Tail(repl), text, p, end, g1)

\* text.replace(pattern, repl) under flag g, from lastIndex = from with the
\* text up to index done already emitted: the leftmost match at or after from
\* is replaced and the search goes on at its end, one index further after an
\* empty match.  ReplaceMatch is the match at index p by the alternative alt
\* whose atoms start at index w.
RECURSIVE ReplaceFrom(_, _, _, _, _)
ReplaceMatch(text, p, w, alt, done, alts, repl) ==
    Slice(text, done, p)
        \o GetSubstitution(repl, text, p, w + Len(alt.atoms),
                           IF alt.prefix THEN w ELSE -1)
        \o ReplaceFrom(text,
                       IF w + Len(alt.atoms) = p THEN p + 1 ELSE w + Len(alt.atoms),
                       w + Len(alt.atoms), alts, repl)

ReplaceBy(text, p, alt, done, alts, repl) ==
    ReplaceMatch(text, p, AlternativeAt(text, p, alt), alt, done, alts, repl)

ReplaceAt(text, p, done, alts, repl) ==
    IF p = -1 THEN Slice(text, done, Len(text))
    ELSE ReplaceBy(text, p, alts[PatternAt(text, p, alts)], done, alts, repl)

ReplaceFrom(text, from, done, alts, repl) ==
    ReplaceAt(text, PatternSearch(text, from, alts), done, alts, repl)

\* the value a computed has when its getter threw
Threw == <<-1>>

\* one turn of the forEach: out.replace(pattern, u.emoji + ':')
ReplaceEntry(out, u) ==
    ReplaceFrom(out, 0, 0, PatternAlternatives(EscapeName(u.name)), Append(u.emoji, 58))

\* the getter of outputText over the entries from the k-th on
RECURSIVE SubstituteFrom(_, _, _)
SubstituteFrom(out, entries, k) ==
    IF k > Len(entries) THEN out
    ELSE IF PatternThrows(EscapeName(entries[k].name)) THEN Threw
         ELSE SubstituteFrom(ReplaceEntry(out, entries[k]), entries, k + 1)

Substitute(text, entries) == SubstituteFrom(text, entries, 1)

(***************************************************************************)
(* The program's constants and the inputs of the model.                    *)
(***************************************************************************)

\* defaultEmojis: ten emoji, each a surrogate pair (U+1F60A, U+1F609,
\* U+1F60E, U+1F917, U+1F607, U+1F603, U+1F60F, U+1F605, U+1F61C, U+1F929)
defaultEmojis ==
    << <<55357, 56842>>, <<55357, 56841>>, <<55357, 56846>>, <<55358, 56599>>,
       <<55357, 56839>>, <<55357, 56835>>, <<55357, 56847>>, <<55357, 56837>>,
       <<55357, 56860>>, <<55358, 56617>> >>

\* "[1/2, 9:00 am]" and "[16/06,9:25PM]"
TS == <<91, 49, 47, 50, 44, 32, 57, 58, 48, 48, 32, 97, 109, 93>>
TSUpper == <<91, 49, 54, 47, 48, 54, 44, 57, 58, 50, 53, 80, 77, 93>>

LineA       == TS \o <<32, 65, 58, 32, 104, 105>>               \* [..] A: hi
LineB       == TSUpper \o <<32, 66, 58, 32, 65, 58, 32, 121>>   \* [..] B: A: y
LineLowerA  == TS \o <<32, 97, 58, 32, 122>>                    \* [..] a: z
LinePadA    == TS \o <<32, 65, 32, 58, 32, 119>>                \* [..] A : w
LineNoColon == TS \o <<32, 65>>                                 \* [..] A
LinePlain   == <<111, 107, 58, 32, 1488>>                       \* ok: (alef)
LineMid     == <<120, 32>> \o TS \o <<32, 65, 58, 32, 113>>     \* x [..] A: q
LineAlt     == TS \o <<32, 65, 124, 66, 58, 32, 66, 58, 32, 107>> \* [..] A|B: B: k
LineParen   == TS \o <<32, 65, 40, 58, 32, 112>>                \* [..] A(: p
\* [1/2 9:00 am] A: x, the comma missing
LineBadTS   == <<91, 49, 47, 50, 32, 57, 58, 48, 48, 32, 97, 109, 93,
                 32, 65, 58, 32, 120>>

\* The lines the user types.
Lines ==
    { LineA, LineB, LineLowerA, LinePadA, LineNoColon, LinePlain, LineMid,
      LineAlt, LineParen, LineBadTS }

\* the most lines of a transcript the user edits line by line
MaxLines == 1

\* lines.join("\n")
RECURSIVE Join(_)
Join(lines) ==
    IF lines = <<>> THEN <<>>
    ELSE IF Len(lines) = 1 THEN lines[1]
         ELSE lines[1] \o <<10>> \o Join(Tail(lines))

\* headers for A, B, A
RepeatedSpeaker == Join(<<LineA, LineB, LineA>>)

\* a transcript with more speakers than defaultEmojis has entries:
\* "[1/2,9am] C: x" to "[1/2,9am] M: x"
ManySpeakers ==
    Join([k \in 1..(Len(defaultEmojis) + 1) |->
             <<91, 49, 47, 50, 44, 57, 97, 109, 93, 32, 66 + k, 58, 32, 120>>])

\* speakers whose names differ in letter case only
CaseVariants == Join(<<LineA, LineLowerA>>)

\* a timestamped line without a colon, and a line with one after it
SplitHeader == Join(<<LineNoColon, LinePlain>>)

\* a timestamped line without a colon, and a header line after it
MissedHeader == Join(<<LineNoColon, LineB>>)

\* The transcripts the user pastes over the whole field (the empty one
\* clears it).
Pasted ==
    { <<>>, LineB, RepeatedSpeaker, ManySpeakers, CaseVariants, SplitHeader,
      MissedHeader }

\* what the user types into an emoji field (maxlength 2): "T", nothing,
\* "$&", and the Hebrew letter alef
EditTokens == { <<84>>, <<>>, <<36, 38>>, <<1488>> }

\* the lines of a text, and the text with a line typed at its end, with its
\* first line deleted, with its last line deleted
NumLines(text) ==
    IF text = <<>> THEN 0 ELSE 1 + Cardinality({k \in 1..Len(text) : text[k] = 10})

WithLine(text, line) == IF text = <<>> THEN line ELSE text \o <<10>> \o line

WithoutFirstLine(text) ==
    IF \E k \in 1..Len(text) : text[k] = 10
    THEN Slice(text, CHOOSE k \in 1..Len(text) :
                         text[k] = 10 /\ \A j \in 1..(k - 1) : text[j] # 10,
               Len(text))
    ELSE <<>>

WithoutLastLine(text) ==
    IF \E k \in 1..Len(text) : text[k] = 10
    THEN Slice(text, 0, (CHOOSE k \in 1..Len(text) :
                            text[k] = 10 /\ \A j \in (k + 1)..Len(text) : text[j] # 10) - 1)
    ELSE <<>>

(***************************************************************************)
(* State and operations.                                                   *)
(***************************************************************************)

Init ==
    /\ inputText = <<>>
    /\ userEmojis = <<>>
    /\ lastIndex = 0
    /\ showToast = FALSE
    /\ toastMessage = ""
    /\ timers = <<>>
    /\ pending = 0
    /\ forgotten = {}
    /\ log = <<>>

\* userEmojis.value.find(u => u.name === name): the index of the first entry
\* with that name, 0 for undefined
FindEntry(entries, name) ==
    IF \E k \in 1..Len(entries) : entries[k].name = name
    THEN CHOOSE k \in 1..Len(entries) :
             /\ entries[k].name = name
             /\ \A j \in 1..(k - 1) : entries[j].name # name
    ELSE 0

\* a merge that takes an entry with an empty token for none
MergeEntriesFalsyToken(users, entries) ==
    [k \in 1..Len(users) |->
        LET found == FindEntry(entries, users[k])
        IN  IF found # 0 /\ entries[found].emoji # <<>> THEN entries[found]
            ELSE [name  |-> users[k],
                  emoji |-> defaultEmojis[((k - 1) % Len(defaultEmojis)) + 1]]]

\* a merge that gives a name that comes back the token it was dropped with
MergeEntriesRestoring(users, entries) ==
    [k \in 1..Len(users) |->
        LET found == FindEntry(entries, users[k])
        IN  IF found # 0 THEN entries[found]
            ELSE IF \E f \in forgotten : f.name = users[k]
                 THEN CHOOSE f \in forgotten : f.name = users[k]
                 ELSE [name  |-> users[k],
                       emoji |-> defaultEmojis[((k - 1) % Len(defaultEmojis)) + 1]]]

\* users.map((name, i) => found || { name, emoji: defaultEmojis[i % length] })
MergeEntries(users, entries) ==
    [k \in 1..Len(users) |->
        LET found == FindEntry(entries, users[k])
        IN  IF found # 0 THEN entries[found]
            ELSE [name  |-> users[k],
                  emoji |-> defaultEmojis[((k - 1) % Len(defaultEmojis)) + 1]]]

\* v-model sets inputText to val and the watcher runs: watch(inputText, ...)
WatchInput(val) ==
    /\ val # inputText
    /\ inputText' = val
    /\ LET r == extractUsers(val, lastIndex)
       IN  /\ userEmojis' = MergeEntries(r.users, userEmojis)
           /\ lastIndex' = r.lastIndex
    /\ UNCHANGED <<showToast, toastMessage, timers, pending, log>>

\* v-model of an emoji field: u.emoji = token
EditEmoji(k, token) ==
    /\ token # userEmojis[k].emoji
    /\ userEmojis' = [userEmojis EXCEPT ![k].emoji = token]
    /\ UNCHANGED <<inputText, lastIndex>>
    /\ UNCHANGED <<showToast, toastMessage, timers, pending, log>>

\* the emoji fields the user types into: the first and the last
EditedFields == {1, Len(userEmojis)} \cap (1..Len(userEmojis))

\* computed(outputText)
outputText == Substitute(inputText, userEmojis)

\* [\u0591-\u07FF\uFB1D-\uFDFD\uFE70-\uFEFC]
InRTLClass(c) == c \in 1425..2047 \/ c \in 64285..65021 \/ c \in 65136..65276

\* computed(isRTL): the getter reads outputText.value, and throws when that
\* getter throws
isRTL ==
    IF outputText = Threw THEN Threw
    ELSE \E k \in 1..Len(outputText) : InRTLClass(outputText[k])

\* the user types a line at the end of the transcript
TypeLine ==
    \E line \in Lines :
        /\ NumLines(inputText) < MaxLines
        /\ WatchInput(WithLine(inputText, line))
        /\ UNCHANGED forgotten

\* the user deletes the first line, or the last one
DeleteFirstLine ==
    /\ NumLines(inputText) \in 1..MaxLines
    /\ WatchInput(WithoutFirstLine(inputText))
    /\ UNCHANGED forgotten

DeleteLastLine ==
    /\ NumLines(inputText) \in 1..MaxLines
    /\ WatchInput(WithoutLastLine(inputText))
    /\ UNCHANGED forgotten

\* the user pastes over the whole transcript
PasteText == \E val \in Pasted : WatchInput(val) /\ UNCHANGED forgotten

\* the user types a token into an emoji field
SetEmoji ==
    \E k \in EditedFields, token \in EditTokens :
        EditEmoji(k, token) /\ UNCHANGED forgotten

Next == TypeLine \/ DeleteFirstLine \/ DeleteLastLine \/ PasteText \/ SetEmoji

Spec == Init /\ [][Next]_vars

(***************************************************************************)
(* The same editing with its history kept: which entries the watcher       *)
(* dropped while they held a token the user had typed.                     *)
(***************************************************************************)

\* the entries of before that are not among those of after and hold no
\* default emoji
DroppedTyped(before, after) ==
    { before[k] : k \in { j \in 1..Len(before) :
                             /\ \A i \in 1..Len(after) : after[i].name # before[j].name
                             /\ \A i \in 1..Len(defaultEmojis) :
                                    defaultEmojis[i] # before[j].emoji } }

\* the transcripts the user goes back and forth between
Repasted == { <<>>, LineB, RepeatedSpeaker, CaseVariants }

\* the user pastes over the whole transcript; what the watcher drops is kept
PasteOver ==
    \E val \in Repasted :
        /\ WatchInput(val)
        /\ forgotten' = IF DroppedTyped(userEmojis, userEmojis') # {}
                        THEN DroppedTyped(userEmojis, userEmojis')
                        ELSE forgotten

NextHistory == PasteOver \/ SetEmoji

SpecHistory == Init /\ [][NextHistory]_vars

(***************************************************************************)
(* The toast, and the Copy and Save buttons.                               *)
(***************************************************************************)

\* the delay of the setTimeout of showNotification, in ms
ToastDelay == 3000

\* showNotification(message)
showNotification(message) ==
    /\ toastMessage' = message
    /\ showToast' = TRUE
    /\ timers' = Append(timers, ToastDelay)

\* time passes, to the moment the next callback is due at the latest
Elapse ==
    /\ timers # <<>>
    /\ \E d \in {ToastDelay \div 3, Head(timers)} :
           /\ 0 < d
           /\ d <= Head(timers)
           /\ timers' = [k \in 1..Len(timers) |-> timers[k] - d]
    /\ UNCHANGED <<showToast, toastMessage, pending, log, textVars>>

\* the callback of setTimeout: showToast.value = false
TimerFires ==
    /\ timers # <<>>
    /\ Head(timers) = 0
    /\ showToast' = FALSE
    /\ timers' = Tail(timers)
    /\ UNCHANGED <<toastMessage, pending, log, textVars>>

\* the most clicks on Copy and Save
MaxOps == 2

\* the clicks so far: the operations that have ended and the copies that
\* wait for their promise
Started == Len(log) + pending

\* a catch that shows nothing
CopyCatchSilent == UNCHANGED toastVars

\* catch (err) of copyToClipboard
CopyCatch == showNotification("Failed to copy text")

\* catch (err) of saveToFile
SaveCatch == showNotification("Failed to save file")

\* copyToClipboard up to its await, when the getter of outputText or the call
\* of writeText throws (navigator.clipboard is undefined outside a secure
\* context)
CopyThrows ==
    /\ Started < MaxOps
    /\ CopyCatch
    /\ log' = Append(log, [op |-> "copy", failed |-> TRUE])
    /\ UNCHANGED <<pending, textVars>>

\* copyToClipboard up to its await, when writeText has returned its promise
CopyAwaits ==
    /\ Started < MaxOps
    /\ outputText # Threw
    /\ pending' = pending + 1
    /\ UNCHANGED <<toastVars, log, textVars>>

\* copyToClipboard after its await, the promise fulfilled
CopyFulfilled ==
    /\ pending > 0
    /\ pending' = pending - 1
    /\ showNotification("Copied to clipboard!")
    /\ log' = Append(log, [op |-> "copy", failed |-> FALSE])
    /\ UNCHANGED textVars

\* copyToClipboard after its await, the promise rejected
CopyRejected ==
    /\ pending > 0
    /\ pending' = pending - 1
    /\ CopyCatch
    /\ log' = Append(log, [op |-> "copy", failed |-> TRUE])
    /\ UNCHANGED textVars

\* saveToFile, no step of its try block throwing
SaveDone ==
    /\ Started < MaxOps
    /\ outputText # Threw
    /\ showNotification("File saved successfully!")
    /\ log' = Append(log, [op |-> "save", failed |-> FALSE])
    /\ UNCHANGED <<pending, textVars>>

\* saveToFile, a step of its try block throwing: the getter of outputText,
\* new Blob, createElement, createObjectURL, click or revokeObjectURL
SaveThrows ==
    /\ Started < MaxOps
    /\ SaveCatch
    /\ log' = Append(log, [op |-> "save", failed |-> TRUE])
    /\ UNCHANGED <<pending, textVars>>

\* the transcripts the user pastes before a copy or a save: one with a
\* header, and one whose output throws
Shared == { LineA, MissedHeader }

PasteShared == \E val \in Shared : WatchInput(val) /\ UNCHANGED forgotten

NextIO ==
    \/ PasteShared
    \/ CopyThrows
    \/ CopyAwaits
    \/ CopyFulfilled
    \/ CopyRejected
    \/ SaveDone
    \/ SaveThrows
    \/ Elapse
    \/ TimerFires

SpecIO == Init /\ [][NextIO]_vars

(***************************************************************************)
(* Notions the properties are stated with.                                 *)
(***************************************************************************)

\* the names of the entries, in order
Names(entries) == [k \in 1..Len(entries) |-> entries[k].name]

NoDuplicates(seq) ==
    \A i, j \in 1..Len(seq) : i # j => seq[i] # seq[j]

\* text holds a header from index p on: msgRegex matches there and p lies in
\* no header that starts further left (the matches the exec loop meets)
RECURSIVE HeaderAt(_, _)
HeaderAt(text, p) ==
    /\ msgRegexAt(text, p) # -1
    /\ \A q \in 0..(p - 1) : msgRegexAt(text, q) > p => ~HeaderAt(text, q)

Headers(text) == { p \in 0..(Len(text) - 1) : HeaderAt(text, p) }

\* the speaker of the header at index p: its name without the white space
\* around it
SpeakerAt(text, p) == Trim(Group3(text, p, msgRegexAt(text, p)))

\* the index where the i-th line of a text starts, the index where the line
\* that holds index a ends, and the i-th line
LineStart(text, i) ==
    IF i = 1 THEN 0
    ELSE CHOOSE a \in 1..Len(text) :
             /\ text[a] = 10
             /\ Cardinality({ k \in 1..a : text[k] = 10 }) = i - 1

LineEnd(text, a) ==
    CHOOSE q \in a..Len(text) :
        /\ \A r \in a..(q - 1) : text[r + 1] # 10
        /\ q = Len(text) \/ text[q + 1] = 10

NthLine(text, i) == Slice(text, LineStart(text, i), LineEnd(text, LineStart(text, i)))

\* the line is one of the lines of the text
HasLine(text, line) == \E i \in 1..NumLines(text) : NthLine(text, i) = line

EndsWith(text, tail) ==
    /\ Len(tail) <= Len(text)
    /\ Slice(text, Len(text) - Len(tail), Len(text)) = tail

\* the message body of the header at index p: what follows its colon on the line
BodyAt(text, p) == Slice(text, msgRegexAt(text, p), LineEnd(text, msgRegexAt(text, p)))

\* no header of the text goes over the end of a line
SingleLineHeaders(text) ==
    \A p \in Headers(text) : \A k \in (p + 1)..msgRegexAt(text, p) : text[k] # 10

\* a line, taken alone, has the header shape, and the speaker it names
LineIsHeader(line) == line # <<>> /\ msgRegexAt(line, 0) # -1

LineSpeaker(line) == SpeakerAt(line, 0)

\* the lines of the text that have the header shape, and the first of them
\* that names the speaker (-1: none)
HeaderLines(text) == { i \in 1..NumLines(text) : LineIsHeader(NthLine(text, i)) }

FirstLineOf(text, name) ==
    LeftMost({ i \in HeaderLines(text) : LineSpeaker(NthLine(text, i)) = name })

(***************************************************************************)
(* The claims.                                                             *)
(***************************************************************************)

\* C1 (as claimed): every header whose speaker is an entry's name shows in
\* outputText as a line made of that entry's token, ':' and the header's
\* message body.
C1_HeadersReplaced ==
    \A p \in Headers(inputText) : \A k \in 1..Len(userEmojis) :
        userEmojis[k].name = SpeakerAt(inputText, p)
            => HasLine(outputText,
                       userEmojis[k].emoji \o <<58>> \o BodyAt(inputText, p))

\* C2 (as claimed): extractUsers returns the speaker of every line that has
\* the header shape, no name twice and the names in the order of the first
\* lines that name them, and leaves msgRegex so that the next call scans its
\* transcript from the start.
C2_ExtractDistinctInOrder ==
    LET users == extractUsers(inputText, lastIndex).users
    IN  /\ lastIndex = 0
        /\ NoDuplicates(users)
        /\ \A i \in HeaderLines(inputText) :
               \E k \in 1..Len(users) : users[k] = LineSpeaker(NthLine(inputText, i))
        /\ \A j, k \in 1..Len(users) :
               (/\ j < k
                /\ FirstLineOf(inputText, users[j]) # -1
                /\ FirstLineOf(inputText, users[k]) # -1)
                   => FirstLineOf(inputText, users[j]) < FirstLineOf(inputText, users[k])

\* C3: a change of the transcript leaves exactly the extracted names, in
\* extraction order and each once; a name of the previous set keeps the token
\* it had, a name that was not in it gets defaultEmojis[i mod length] for its
\* index i in the extracted sequence.
C3_MergeKeepsTokens ==
    [][inputText' # inputText =>
         /\ Names(userEmojis') = extractUsers(inputText', lastIndex).users
         /\ NoDuplicates(Names(userEmojis'))
         /\ \A k \in 1..Len(userEmojis') :
                LET old == { j \in 1..Len(userEmojis) :
                                 userEmojis[j].name = userEmojis'[k].name }
                IN  IF old # {}
                    THEN \A j \in old : userEmojis'[k].emoji = userEmojis[j].emoji
                    ELSE userEmojis'[k].emoji
                             = defaultEmojis[((k - 1) % Len(defaultEmojis)) + 1]
    ]_vars

\* the transcript has changed to one with eleven speakers, and the eleventh
\* holds the first default emoji again
C3_Witness ==
    /\ inputText = ManySpeakers
    /\ Len(userEmojis) = Len(defaultEmojis) + 1
    /\ userEmojis[Len(defaultEmojis) + 1].emoji = defaultEmojis[1]

\* C4 (as claimed): when the token of one entry changes, the line of every
\* header of another speaker is the same in outputText before and after, and
\* so is the end of every line that is its message body.
C4_OnlyThatSpeakerChanges ==
    [][\A k \in 1..Len(userEmojis) :
           (/\ inputText' = inputText
            /\ Len(userEmojis') = Len(userEmojis)
            /\ userEmojis'[k].emoji # userEmojis[k].emoji
            /\ SingleLineHeaders(inputText)
            /\ outputText # Threw)
           => \A i \in 1..NumLines(inputText) :
                  LET a == LineStart(inputText, i)
                  IN  HeaderAt(inputText, a) =>
                          /\ SpeakerAt(inputText, a) # userEmojis[k].name
                                 => NthLine(Substitute(inputText', userEmojis'), i)
                                        = NthLine(outputText, i)
                          /\ EndsWith(NthLine(Substitute(inputText', userEmojis'), i),
                                      BodyAt(inputText, a))
                                 <=> EndsWith(NthLine(outputText, i), BodyAt(inputText, a))
    ]_vars

\* C5 (as claimed): a message body that holds no timestamp bracket stands
\* at the end of its line of outputText as it stands in the transcript, and a
\* line without a header and without a bracket is a line of outputText as it is.
C5_BodiesUntouched ==
    (outputText # Threw /\ SingleLineHeaders(inputText)) =>
        \A i \in 1..NumLines(inputText) :
            LET a    == LineStart(inputText, i)
                body == IF HeaderAt(inputText, a) THEN BodyAt(inputText, a)
                        ELSE NthLine(inputText, i)
            IN  (\A k \in 1..Len(body) : body[k] # 91)
                    => /\ NumLines(outputText) = NumLines(inputText)
                       /\ EndsWith(NthLine(outputText, i), body)

\* C6 (as claimed): the getter of outputText never throws, and the empty
\* transcript gives no speakers and the empty output.
C6_NeverThrows ==
    /\ outputText # Threw
    /\ inputText = <<>> => userEmojis = <<>> /\ outputText = <<>>

\* C7 (as claimed): when no line of the transcript has the header shape, no
\* speaker is extracted and outputText is the transcript.
C7_NoHeaderLineNoSpeaker ==
    HeaderLines(inputText) = {} => userEmojis = <<>> /\ outputText = inputText

\* C8: when the transcript changes, a name that is the speaker of no header
\* of the new transcript is in no entry; a name that was in an entry keeps its
\* token; a name that was in none gets defaultEmojis[i mod length] for its
\* index i, which is not the token it was dropped with before.
C8_DroppedNameComesBackDefault ==
    [][inputText' # inputText =>
         /\ \A k \in 1..Len(userEmojis) :
                (\A p \in Headers(inputText') :
                     SpeakerAt(inputText', p) # userEmojis[k].name)
                    => \A j \in 1..Len(userEmojis') :
                           userEmojis'[j].name # userEmojis[k].name
         /\ \A j \in 1..Len(userEmojis') :
                IF \E k \in 1..Len(userEmojis) : userEmojis[k].name = userEmojis'[j].name
                THEN \A k \in 1..Len(userEmojis) :
                         userEmojis[k].name = userEmojis'[j].name
                             => userEmojis'[j].emoji = userEmojis[k].emoji
                ELSE /\ userEmojis'[j].emoji
                            = defaultEmojis[((j - 1) % Len(defaultEmojis)) + 1]
                     /\ \A f \in forgotten :
                            f.name = userEmojis'[j].name
                                => userEmojis'[j].emoji # f.emoji
    ]_vars

\* A was dropped with the token "T" while B stayed, and is back: A holds the
\* first default emoji, B the alef the user had typed for it
C8_Witness ==
    /\ inputText = RepeatedSpeaker
    /\ [name |-> <<65>>, emoji |-> <<84>>] \in forgotten
    /\ userEmojis = << [name |-> <<65>>, emoji |-> defaultEmojis[1]],
                       [name |-> <<66>>, emoji |-> <<1488>>] >>

\* C9 (as claimed): isRTL has a value, true exactly when outputText holds a
\* code unit of U+0591..U+07FF, U+FB1D..U+FDFD or U+FE70..U+FEFC, and false
\* for a transcript of Latin script only.
C9_IsRTLTestsOutput ==
    /\ outputText # Threw
    /\ isRTL <=> \E k \in 1..Len(outputText) :
                     \/ outputText[k] \in 1425..2047
                     \/ outputText[k] \in 64285..65021
                     \/ outputText[k] \in 65136..65276
    /\ (\A k \in 1..Len(inputText) : inputText[k] < 128) => ~isRTL

\* the messages of the Copy and Save buttons
FailureMessage(op) ==
    IF op = "copy" THEN "Failed to copy text" ELSE "Failed to save file"

SuccessMessage(op) ==
    IF op = "copy" THEN "Copied to clipboard!" ELSE "File saved successfully!"

\* C10: an operation that ends shows the toast with its failure message when
\* it failed and with its success message when it did not; one that failed
\* starts no other write; an operation whose outputText throws fails; no
\* operation ends without its message; and neither a click nor the settling of
\* a promise changes the transcript or the entries.
C10_FailureShowsFailureMessage ==
    [][/\ log' # log =>
              /\ log' = Append(log, log'[Len(log')])
              /\ showToast'
              /\ toastMessage' = IF log'[Len(log')].failed
                                 THEN FailureMessage(log'[Len(log')].op)
                                 ELSE SuccessMessage(log'[Len(log')].op)
              /\ log'[Len(log')].failed => pending' <= pending
              /\ outputText = Threw /\ pending' = pending => log'[Len(log')].failed
       /\ Len(log') + pending' >= Len(log) + pending
       /\ (log' # log \/ pending' # pending)
              => inputText' = inputText /\ userEmojis' = userEmojis
    ]_vars

\* a save has succeeded and then the promise of a copy was rejected: the toast
\* shows that the copy failed
C10_Witness ==
    /\ inputText = LineA
    /\ log = << [op |-> "save", failed |-> FALSE], [op |-> "copy", failed |-> TRUE] >>
    /\ pending = 0
    /\ showToast
    /\ toastMessage = "Failed to copy text"

\* the name holds a character that has a meaning in a pattern:
\* . * + ? ^ $ { } ( ) | [ ] or the backslash
HasMetacharacter(name) ==
    \E k \in 1..Len(name) : InEscapeClass(name[k]) \/ name[k] = 93

\* C11 (as claimed): for an entry whose name holds a pattern metacharacter the
\* pattern is built and matches the name as it is written: every header of
\* that speaker shows in outputText as the token, ':' and the message body,
\* the body as it stands in the transcript.
C11_NameMatchedLiterally ==
    \A k \in 1..Len(userEmojis) :
        HasMetacharacter(userEmojis[k].name) =>
            /\ outputText # Threw
            /\ \A p \in Headers(inputText) :
                   SpeakerAt(inputText, p) = userEmojis[k].name
                       => HasLine(outputText,
                                  userEmojis[k].emoji \o <<58>> \o BodyAt(inputText, p))

\* C12 (as claimed): the toast is hidden only when the delay of the
\* notification it shows, the one raised last, has run out: the last of the
\* pending callbacks is the one that notification has set.
C12_ToastStaysForItsDelay ==
    [][(showToast /\ ~showToast') => timers[Len(timers)] = 0]_vars

====
